---- MODULE Spec2Model ----
(***************************************************************************)
(* rpc-controllers: the driver layer (ExpressDriver, KoaDriver, BaseDriver)*)
(* and MethodMetadata, modelled as a state machine.                        *)
(*                                                                         *)
(* JavaScript values are records [t, n, s] tagged with their type, so that *)
(* truthiness tests and instanceof tests of the source can be evaluated.   *)
(* Strings that the code takes apart (routes, header names) are sequences  *)
(* of one-character strings.                                               *)
(***************************************************************************)
EXTENDS Integers, Sequences, FiniteSets, TLC

\* ------------------------------------------------------------------------
\* Bounds of the model
\* ------------------------------------------------------------------------

\* Number of requests the host framework delivers concurrently.
MaxRequests == 2

\* Longest declared header name explored by getParamFromRequest.
MaxNameLen == 2

\* Longest base route given to appendBaseRoute.
MaxRouteLen == 3

\* Longest list of response handlers a method is built with.
MaxHandlers == 2

\* ------------------------------------------------------------------------
\* JavaScript values
\* ------------------------------------------------------------------------

Undefined == [t |-> "undefined", n |-> 0, s |-> ""]

Null == [t |-> "null", n |-> 0, s |-> ""]

Num(n) == [t |-> "number", n |-> n, s |-> ""]

Str(s) == [t |-> "string", n |-> 0, s |-> s]

\* A constructor function (an error class given as a result code).
Fn(s) == [t |-> "function", n |-> 0, s |-> s]

\* An object, identified by a label.
Obj(s) == [t |-> "object", n |-> 0, s |-> s]

\* JavaScript truthiness: undefined, null, 0 and "" are falsy.
Truthy(v) ==
    /\ v.t # "undefined"
    /\ v.t # "null"
    /\ ~(v.t = "number" /\ v.n = 0)
    /\ ~(v.t = "string" /\ v.s = "")

\* `v instanceof Function`
IsFunction(v) == v.t = "function"

\* ------------------------------------------------------------------------
\* Strings as character sequences
\* ------------------------------------------------------------------------

\* String.prototype.toLowerCase on one character of the alphabet in use.
LowerChar(c) ==
    CASE c = "X" -> "x"
      [] c = "T" -> "t"
      [] OTHER -> c

\* String.prototype.toLowerCase
toLowerCase(str) == [i \in DOMAIN str |-> LowerChar(str[i])]

\* String.prototype.indexOf for a one-character needle; -1 when absent.
indexOf(str, c) ==
    IF \E i \in DOMAIN str : str[i] = c
    THEN CHOOSE i \in DOMAIN str :
            /\ str[i] = c
            /\ \A j \in DOMAIN str : str[j] = c => i <= j
    ELSE 0 - 1

\* String.prototype.substr(1)
substr1(str) == IF Len(str) = 0 THEN str ELSE Tail(str)

\* A route is a string [kind |-> "string", source, flags |-> <<>>] or a
\* RegExp [kind |-> "regexp", source, flags].
StringRoute(source) == [kind |-> "string", source |-> source, flags |-> <<>>]

RegExpRoute(source, flags) == [kind |-> "regexp", source |-> source, flags |-> flags]

\* RegExp.prototype.toString: "/" + source + "/" + flags
regexpToString(name) == <<"/">> \o name.source \o <<"/">> \o name.flags

\* ------------------------------------------------------------------------
\* MethodMetadata
\* ------------------------------------------------------------------------

\* appendBaseRoute that composes a pattern with every base, the empty one
\* included.
appendBaseRoute_AlwaysComposing(baseRoute, name) ==
    IF name.kind = "string"
    THEN StringRoute(baseRoute \o name.source)
    ELSE RegExpRoute(<<"^">> \o baseRoute \o name.source \o <<"?", "$">>, name.flags)

\* MethodMetadata.appendBaseRoute(baseRoute, name)
appendBaseRoute(baseRoute, name) ==
    LET prefix == (IF Len(baseRoute) > 0 /\ indexOf(baseRoute, "/") < 0
                   THEN <<"/">> ELSE <<>>) \o baseRoute
    IN  IF name.kind = "string"
        THEN StringRoute(prefix \o name.source)
        ELSE IF Len(baseRoute) = 0
        THEN name
        ELSE RegExpRoute(<<"^">> \o prefix \o substr1(regexpToString(name)) \o <<"?", "$">>,
                         name.flags)

\* buildFullRoute that joins the controller name and the fragment with "/".
buildFullRoute_WithSeparator(controllerName, name) ==
    IF name.kind = "regexp"
    THEN name
    ELSE StringRoute(controllerName
                     \o (IF Len(name.source) > 0 /\ name.source[1] = "/"
                         THEN <<>> ELSE <<"/">>)
                     \o name.source)

\* MethodMetadata.buildFullRoute: controllerName is controllerMetadata.name.
buildFullRoute(controllerName, name) ==
    IF name.kind = "regexp"
    THEN IF Len(controllerName) > 0
         THEN appendBaseRoute(controllerName, name)
         ELSE name
    ELSE StringRoute((IF Len(controllerName) > 0 THEN controllerName ELSE <<>>)
                     \o (IF Len(name.source) > 0 THEN name.source ELSE <<>>))

\* Array.prototype.find on the handler type: the first match, or none.
HasHandler(responseHandlers, type) ==
    \E i \in DOMAIN responseHandlers : responseHandlers[i].type = type

FindHandler(responseHandlers, type) ==
    responseHandlers[CHOOSE i \in DOMAIN responseHandlers :
        /\ responseHandlers[i].type = type
        /\ \A j \in DOMAIN responseHandlers :
              responseHandlers[j].type = type => i <= j]

\* headers[handler.value] = handler.secondaryValue for the "header" handlers,
\* in declaration order, applied over the headers collected so far.
RECURSIVE ApplyHeaderHandlers(_, _)
ApplyHeaderHandlers(headers, responseHandlers) ==
    IF responseHandlers = <<>>
    THEN headers
    ELSE LET h == Head(responseHandlers)
             next == IF h.type = "header"
                     THEN [k \in DOMAIN headers \cup {h.value.s} |->
                              IF k = h.value.s THEN h.secondaryValue ELSE headers[k]]
                     ELSE headers
         IN  ApplyHeaderHandlers(next, Tail(responseHandlers))

\* MethodMetadata.buildHeaders
buildHeaders(responseHandlers) ==
    LET start == IF HasHandler(responseHandlers, "content-type")
                 THEN [k \in {"Content-type"} |->
                          FindHandler(responseHandlers, "content-type").value]
                 ELSE [k \in {} |-> Undefined]
    IN  ApplyHeaderHandlers(start, responseHandlers)

\* build with a full route that is composed from the route of the build
\* before.
build_Accumulating(method, responseHandlers, defaults) ==
    [method EXCEPT
        !.responseClassTransformOptions =
            IF HasHandler(responseHandlers, "response-class-transform-options")
            THEN FindHandler(responseHandlers, "response-class-transform-options").value
            ELSE @,
        !.successHttpCode =
            IF HasHandler(responseHandlers, "success-code")
            THEN FindHandler(responseHandlers, "success-code").value
            ELSE @,
        !.undefinedResultCode =
            IF HasHandler(responseHandlers, "on-undefined")
            THEN FindHandler(responseHandlers, "on-undefined").value
            ELSE defaults.undefinedResultCode,
        !.nullResultCode =
            IF HasHandler(responseHandlers, "on-null")
            THEN FindHandler(responseHandlers, "on-null").value
            ELSE defaults.nullResultCode,
        !.fullRoute = buildFullRoute(method.controllerName,
                                     IF method.built THEN method.fullRoute ELSE method.name),
        !.headers = buildHeaders(responseHandlers),
        !.built = TRUE]

\* build that does not consult options.defaults.
build_WithoutDefaults(method, responseHandlers, defaults) ==
    [method EXCEPT
        !.responseClassTransformOptions =
            IF HasHandler(responseHandlers, "response-class-transform-options")
            THEN FindHandler(responseHandlers, "response-class-transform-options").value
            ELSE @,
        !.successHttpCode =
            IF HasHandler(responseHandlers, "success-code")
            THEN FindHandler(responseHandlers, "success-code").value
            ELSE @,
        !.undefinedResultCode =
            IF HasHandler(responseHandlers, "on-undefined")
            THEN FindHandler(responseHandlers, "on-undefined").value
            ELSE Undefined,
        !.nullResultCode =
            IF HasHandler(responseHandlers, "on-null")
            THEN FindHandler(responseHandlers, "on-null").value
            ELSE Undefined,
        !.fullRoute = buildFullRoute(method.controllerName, method.name),
        !.headers = buildHeaders(responseHandlers),
        !.built = TRUE]

\* MethodMetadata.build: defaults is options.defaults (its two result codes,
\* Undefined when not set).
build(method, responseHandlers, defaults) ==
    [method EXCEPT
        !.responseClassTransformOptions =
            IF HasHandler(responseHandlers, "response-class-transform-options")
            THEN FindHandler(responseHandlers, "response-class-transform-options").value
            ELSE @,
        !.undefinedResultCode =
            IF HasHandler(responseHandlers, "on-undefined")
            THEN FindHandler(responseHandlers, "on-undefined").value
            ELSE defaults.undefinedResultCode,
        !.nullResultCode =
            IF HasHandler(responseHandlers, "on-null")
            THEN FindHandler(responseHandlers, "on-null").value
            ELSE defaults.nullResultCode,
        !.successHttpCode =
            IF HasHandler(responseHandlers, "success-code")
            THEN FindHandler(responseHandlers, "success-code").value
            ELSE @,
        !.fullRoute = buildFullRoute(method.controllerName, method.name),
        !.headers = buildHeaders(responseHandlers),
        !.built = TRUE]

\* new MethodMetadata(controllerMetadata, args, options): the derived fields
\* are not assigned by the constructor.
NewMethodMetadata(controllerName, name, type) ==
    [controllerName |-> controllerName,
     name |-> name,
     type |-> type,
     built |-> FALSE,
     fullRoute |-> StringRoute(<<>>),
     headers |-> [k \in {} |-> Undefined],
     undefinedResultCode |-> Undefined,
     nullResultCode |-> Undefined,
     successHttpCode |-> Undefined,
     responseClassTransformOptions |-> Undefined]

\* ------------------------------------------------------------------------
\* JSON values (error envelopes) and thrown errors
\* ------------------------------------------------------------------------

\* A JSON value is a pair <<tag, content>>: <<"s", string>>, <<"n", number>>,
\* <<"o", map from keys to JSON values>>, or <<"u", "">> for undefined.
JStr(s) == <<"s", s>>

JNum(n) == <<"n", n>>

JObj(map) == <<"o", map>>

JUndefined == <<"u", "">>

\* The outcome of an evaluation that threw instead of returning a value.
Thrown == <<"throw", "TypeError">>

EmptyMap == [k \in {} |-> JUndefined]

\* typeof j === "object"
IsJObject(j) == j[1] = "o"

\* An error value handed to handleError. t is "null", "undefined", "string",
\* "object" (a plain object), "Error" or "RpcError" (instanceof Error); s is
\* the string itself or the error's message; name and ctor are error.name
\* and error.constructor.name; stack tells whether error.stack is set;
\* toJSON is "none", "returns" or "throws"; props are its own enumerable
\* properties.
ErrorValue(t, s, name, ctor, stack, toJSON, props) ==
    [t |-> t, s |-> s, name |-> name, ctor |-> ctor, stack |-> stack,
     toJSON |-> toJSON, props |-> props]

NoError == ErrorValue("none", "", "", "", FALSE, "none", EmptyMap)

\* The TypeError the runtime throws on a property read of null or undefined.
TypeErrorValue == ErrorValue("Error", "Cannot read property", "TypeError", "TypeError",
                             TRUE, "none", EmptyMap)

\* `new (code)(options)` for a result code that is an error class.
ConstructedError(code) == ErrorValue("Error", "", code.s, code.s, TRUE, "none", EmptyMap)

\* Reading a property of error throws when error is null or undefined.
PropertyReadThrows(error) == error.t \in {"null", "undefined"}

\* error.httpCode, 0 when the property is absent.
httpCodeOf(error) ==
    IF "httpCode" \in DOMAIN error.props /\ error.props["httpCode"][1] = "n"
    THEN error.props["httpCode"][2]
    ELSE 0

\* BaseDriver.merge(obj1, obj2) on the property maps of two objects. The
\* first loop merges recursively the keys both sides hold when obj1's value
\* is an object; `i in obj2` throws a TypeError when obj2 is a primitive and
\* the loop over obj1 runs at all. The second loop then assigns every key of
\* obj2 over the result.
RECURSIVE merge(_, _)
merge(obj1, obj2) ==
    LET mergeValue(j1, j2) ==
            IF IsJObject(j2)
            THEN merge(j1[2], j2[2])
            ELSE IF DOMAIN j1[2] # {} THEN Thrown ELSE JObj(EmptyMap)
        first == [i \in DOMAIN obj1 |->
                    IF i \in DOMAIN obj2 /\ IsJObject(obj1[i])
                    THEN mergeValue(obj1[i], obj2[i])
                    ELSE obj1[i]]
    IN  IF \E i \in DOMAIN first : first[i] = Thrown
        THEN Thrown
        ELSE JObj([i \in DOMAIN first \cup DOMAIN obj2 |->
                      IF i \in DOMAIN obj2 THEN obj2[i] ELSE first[i]])

\* BaseDriver.processJsonError(error) with the driver's developmentMode and
\* errorOverridingMap (EmptyMap when not configured). Returns the envelope,
\* or Thrown when the evaluation throws.
processJsonError(error, devMode, overridingMap) ==
    IF PropertyReadThrows(error)
    THEN Thrown
    ELSE IF error.toJSON = "throws"
    THEN Thrown
    ELSE IF error.toJSON = "returns"
    THEN JObj([k \in {"custom"} |-> JStr(error.s)])
    ELSE IF error.t \in {"Error", "RpcError"}
    THEN LET name == IF error.name # "" /\ error.name # "Error"
                     THEN error.name ELSE error.ctor
             copied == {k \in DOMAIN error.props :
                           /\ k \notin {"stack", "name", "message"}
                           /\ (error.t # "RpcError" \/ k # "httpCode")}
             keys == {"name"}
                     \cup (IF error.s # "" THEN {"message"} ELSE {})
                     \cup (IF error.stack /\ devMode THEN {"stack"} ELSE {})
                     \cup copied
             processedError ==
                 [k \in keys |->
                     IF k \in copied THEN error.props[k]
                     ELSE IF k = "name" THEN JStr(name)
                     ELSE IF k = "message" THEN JStr(error.s)
                     ELSE JStr("stack trace")]
         IN  IF name \in DOMAIN overridingMap
             THEN merge(processedError, overridingMap[name][2])
             ELSE JObj(processedError)
    ELSE IF error.t = "string"
    THEN JStr(error.s)
    ELSE JObj(error.props)

\* The rpcCode of `new InternalError(...)` and of `new ServerError()`, as
\* opaque codes.
InternalErrorCode == JStr("InternalError.rpcCode")

ServerErrorCode == JStr("ServerError.rpcCode")

\* error.message: the message of an Error, the message property of another
\* object, "" when there is none.
messageOf(error) ==
    IF error.t \in {"Error", "RpcError"} THEN error.s
    ELSE IF "message" \in DOMAIN error.props /\ error.props["message"][1] = "s"
    THEN error.props["message"][2]
    ELSE ""

\* The envelope the JSON-RPC processJsonError assembles: code, message when
\* there is one, and data holding the stack in development mode and the
\* properties of the error other than stack, name, message and rpcCode.
RpcEnvelope(code, message, withStack, props) ==
    LET copied == {k \in DOMAIN props : k \notin {"stack", "name", "message", "rpcCode"}}
        data == [k \in copied \cup (IF withStack THEN {"stack"} ELSE {}) |->
                    IF k \in copied THEN props[k] ELSE JStr("stack trace")]
    IN  JObj([k \in {"code", "data"} \cup (IF message # "" THEN {"message"} ELSE {}) |->
                 IF k = "code" THEN code
                 ELSE IF k = "message" THEN JStr(message)
                 ELSE JObj(data)])

\* BaseDriver.processJsonError(error) of the JSON-RPC BaseDriver, with the
\* driver's developmentMode. Returns the envelope, or Thrown when reading
\* error.message throws.
processJsonErrorRpc(error, devMode) ==
    IF error.t = "RpcError"
    THEN RpcEnvelope(IF "rpcCode" \in DOMAIN error.props
                     THEN error.props["rpcCode"] ELSE JUndefined,
                     error.s, error.stack /\ devMode, error.props)
    ELSE IF error.t = "string"
    THEN RpcEnvelope(InternalErrorCode, error.s, devMode, EmptyMap)
    ELSE IF PropertyReadThrows(error)
    THEN Thrown
    ELSE RpcEnvelope(ServerErrorCode, messageOf(error), error.stack /\ devMode,
                     error.props)

\* ------------------------------------------------------------------------
\* Result transformation
\* ------------------------------------------------------------------------

\* result instanceof Buffer
IsBuffer(result) == result = Obj("Buffer")

\* result instanceof Uint8Array (Buffer is a subclass of Uint8Array)
IsUint8Array(result) == result \in {Obj("Buffer"), Obj("Uint8Array")}

\* result.pipe instanceof Function
HasPipe(result) == result = Obj("stream")

\* result instanceof Object
IsObject(result) == result.t \in {"object", "function"}

\* class-transformer's classToPlain: a plain copy of the instance, labelled
\* with the options it was given.
classToPlain(result, options) == [t |-> "object", n |-> options.n, s |-> "plain"]

\* BaseDriver.transformResult(result, action, options)
transformResult(result, action, useTransformer, classToPlainOptions) ==
    LET shouldTransform ==
            /\ useTransformer
            /\ result.t \notin {"undefined", "null"}
            /\ IsObject(result)
            /\ ~(IsUint8Array(result) \/ HasPipe(result))
    IN  IF shouldTransform
        THEN classToPlain(result,
                          IF Truthy(action.responseClassTransformOptions)
                          THEN action.responseClassTransformOptions
                          ELSE classToPlainOptions)
        ELSE result

\* What one call of transformResult did: the value it returned, the error
\* it threw, and the response handle after it.
Transformed(value, threw, res) == [value |-> value, threw |-> threw, response |-> res]

\* `new Buffer(result).toString("binary")`: the bytes as a string.
BinaryString == [t |-> "string", n |-> 0, s |-> "binary"]

\* BaseDriver.transformResult(result, method, action) of the JSON-RPC
\* BaseDriver, on the response handle res of action. A result that is not
\* lastTransform is turned into a string when binary, and else its pipe
\* property is read, which throws for null and undefined, and called with
\* the response when it is a function.
transformResultRpc(result, method, useTransformer, classToPlainOptions, res) ==
    LET shouldTransform ==
            /\ useTransformer
            /\ result.t \notin {"undefined", "null"}
            /\ IsObject(result)
            /\ ~(IsUint8Array(result) \/ HasPipe(result))
    IN  IF shouldTransform
        THEN Transformed(classToPlain(result,
                                      IF Truthy(method.responseClassTransformOptions)
                                      THEN method.responseClassTransformOptions
                                      ELSE classToPlainOptions),
                         NoError, res)
        ELSE IF IsBuffer(result) \/ IsUint8Array(result)
        THEN Transformed(BinaryString, NoError, res)
        ELSE IF result.t \in {"undefined", "null"}
        THEN Transformed(result, TypeErrorValue, res)
        ELSE IF HasPipe(result)
        THEN Transformed(result, NoError,
                         [res EXCEPT !.body = [kind |-> "stream", value |-> result,
                                               envelope |-> JUndefined],
                                     !.writes = @ + 1])
        ELSE Transformed(result, NoError, res)

\* ------------------------------------------------------------------------
\* State
\* ------------------------------------------------------------------------

VARIABLES
    driver,     \* the concrete driver and the BaseDriver fields it was given
    methods,    \* MethodMetadata of every declared method
    routes,     \* the host framework's route table, in registration order
    phase,      \* "build", "register" or "serving"
    pc,         \* per request: where its handling stands
    request,    \* per request: verb and path of the incoming request
    response,   \* per request: the response handle
    pos,        \* per request: the next layer of the route table to try
    current,    \* per request: the method whose callback is running (0: none)
    outcome,    \* per request: what the controller method returned or threw
    executed,   \* per request: the executeCallback invocations, in order
    lastCall,   \* per request: the last driver call and what it did
    handle,     \* the request handle given to getParamFromRequest
    prev,       \* the extraction before the last one
    last,       \* the last extraction of getParamFromRequest
    calls,      \* per request: every handleSuccess / handleError call, in order
    options,    \* options.defaults of the ApplicationOptions given to the metadata
    buildLog,   \* per method: the build calls made, with the metadata after each
    composed,   \* the last application of MethodMetadata.appendBaseRoute
    processed,  \* the last application of BaseDriver.processJsonError
    lastTransform   \* the last application of BaseDriver.transformResult

\* The variables written by metadata building only.
buildVars == <<options, buildLog>>

\* The variables that record the application of a static or protected helper.
applyVars == <<composed, processed, lastTransform>>

vars == <<driver, methods, routes, phase, pc, request, response, pos, current,
          outcome, executed, lastCall, handle, prev, last, calls, buildVars,
          applyVars>>

Requests == 1..MaxRequests

MethodIds == {1, 2}

\* ------------------------------------------------------------------------
\* The response handle
\* ------------------------------------------------------------------------

NoBody == [kind |-> "none", value |-> Undefined, envelope |-> JUndefined]

\* A response nothing was written to; status is what the host framework or
\* an earlier middleware left there.
NewResponse(status) ==
    [status |-> status, statusCalls |-> 0,
     headers |-> [k \in {} |-> Undefined],
     body |-> NoBody, writes |-> 0]

\* express: response.status(code)
SetStatus(res, code) ==
    [res EXCEPT !.status = code.n, !.statusCalls = @ + 1]

\* Object.keys(headers).forEach(name => response.header(name, headers[name]))
\* (express), response.set(name, headers[name]) (koa)
SetHeaders(res, headers) ==
    [res EXCEPT !.headers = [k \in DOMAIN @ \cup DOMAIN headers |->
                                IF k \in DOMAIN headers THEN headers[k] ELSE @[k]]]

\* response.json / response.send / response.end / result.pipe(response) with
\* a result, and response.json or response.body = ... with an envelope.
WriteBody(res, kind, value, envelope) ==
    [res EXCEPT !.body = [kind |-> kind, value |-> value, envelope |-> envelope],
                !.writes = @ + 1]

\* What one call of a driver operation did: the response handle after it,
\* the number of calls of options.next, the error given to next(error), the
\* error the returned promise was rejected with, the error thrown to the
\* caller, and whether transformResult ran.
Effect(res, nexts, forwarded, rejected, threw, transformed) ==
    [response |-> res, nexts |-> nexts, forwarded |-> forwarded,
     rejected |-> rejected, threw |-> threw, transformed |-> transformed]

\* The response and context objects of a request handle, as results.
ResponseObject == Obj("response")

ContextObject == Obj("context")

\* The `method` argument of handleError when no method is known.
NoMethod == NewMethodMetadata(<<>>, StringRoute(<<>>), "none")

\* ------------------------------------------------------------------------
\* ExpressDriver
\* ------------------------------------------------------------------------

\* The short-circuit of handleSuccess left out.
ExpressReturnedResponse_Never(result) == FALSE

\* `result && result === options.response`: the method returned the response
\* object itself.
ExpressReturnedResponse(result) == Truthy(result) /\ result = ResponseObject

\* ExpressDriver.handleSuccess(result, method, options) on the response
\* handle res of options.
ExpressHandleSuccess(result, method, res) ==
    IF ExpressReturnedResponse(result)
    THEN Effect(res, 1, NoError, NoError, NoError, FALSE)
    ELSE
    LET r == transformResult(result, method, driver.useClassTransformer,
                             driver.classToPlainTransformOptions)
        uc == method.undefinedResultCode
        nc == method.nullResultCode
        sc == method.successHttpCode
        thrown ==
            IF r.t = "undefined" /\ Truthy(uc)
            THEN (IF IsFunction(uc) THEN ConstructedError(uc) ELSE NoError)
            ELSE IF r.t = "null" /\ Truthy(nc) /\ IsFunction(nc)
            THEN ConstructedError(nc)
            ELSE NoError
        withStatus ==
            IF r.t = "undefined" /\ Truthy(uc) THEN SetStatus(res, uc)
            ELSE IF r.t = "null"
            THEN (IF Truthy(nc) THEN SetStatus(res, nc) ELSE SetStatus(res, Num(204)))
            ELSE IF Truthy(sc) THEN SetStatus(res, sc)
            ELSE res
        withHeaders == SetHeaders(withStatus, method.headers)
    IN  IF thrown # NoError
        THEN Effect(res, 0, NoError, NoError, thrown, TRUE)
        ELSE IF r.t = "undefined"
        THEN (IF Truthy(uc)
              THEN Effect(withHeaders, 1, NoError, NoError, NoError, TRUE)
              ELSE Effect(withHeaders, 0, NoError, NoError, NoError, TRUE))
        ELSE IF r.t = "null"
        THEN Effect(withHeaders, 1, NoError, NoError, NoError, TRUE)
        ELSE IF IsBuffer(r)
        THEN Effect(WriteBody(withHeaders, "binary", r, JUndefined),
                    0, NoError, NoError, NoError, TRUE)
        ELSE IF IsUint8Array(r)
        THEN Effect(WriteBody(withHeaders, "binary", Obj("Buffer"), JUndefined),
                    0, NoError, NoError, NoError, TRUE)
        ELSE IF HasPipe(r)
        THEN Effect(WriteBody(withHeaders, "stream", r, JUndefined),
                    0, NoError, NoError, NoError, TRUE)
        ELSE Effect(WriteBody(withHeaders, "json", r, JUndefined),
                    1, NoError, NoError, NoError, TRUE)

\* ExpressDriver.handleError(error, method, options); method is NoMethod
\* when absent.
ExpressHandleError(error, method, res) ==
    IF driver.isDefaultErrorHandlingEnabled
    THEN IF PropertyReadThrows(error)
         THEN Effect(res, 0, NoError, NoError, TypeErrorValue, FALSE)
         ELSE
         LET withStatus == IF httpCodeOf(error) # 0
                           THEN SetStatus(res, Num(httpCodeOf(error)))
                           ELSE SetStatus(res, Num(500))
             withHeaders == IF method # NoMethod
                            THEN SetHeaders(withStatus, method.headers)
                            ELSE withStatus
             envelope == processJsonError(error, driver.developmentMode,
                                          driver.errorOverridingMap)
         IN  IF envelope = Thrown
             THEN Effect(withHeaders, 0, NoError, NoError, TypeErrorValue, FALSE)
             ELSE Effect(WriteBody(withHeaders, "json", Undefined, envelope),
                         1, error, NoError, NoError, FALSE)
    ELSE Effect(res, 1, error, NoError, NoError, FALSE)

\* ------------------------------------------------------------------------
\* KoaDriver
\* ------------------------------------------------------------------------

\* `result && (result === options.response || result === options.context)`
KoaReturnedResponse(result) ==
    Truthy(result) /\ (result = ResponseObject \/ result = ContextObject)

\* KoaDriver.handleSuccess(result, action, options)
KoaHandleSuccess(result, action, res) ==
    IF KoaReturnedResponse(result)
    THEN Effect(res, 1, NoError, NoError, NoError, FALSE)
    ELSE
    LET r == transformResult(result, action, driver.useClassTransformer,
                             driver.classToPlainTransformOptions)
    IN  IF r.t = "undefined" /\ IsFunction(action.undefinedResultCode)
        THEN Effect(res, 0, NoError, NoError,
                    ConstructedError(action.undefinedResultCode), TRUE)
        ELSE Effect(SetHeaders(res, action.headers), 1, NoError, NoError, NoError, TRUE)

\* KoaDriver.handleError(error, action, options): the returned promise is
\* resolved, or rejected with the error or with what the executor threw.
KoaHandleError(error, action, res) ==
    IF driver.isDefaultErrorHandlingEnabled
    THEN LET withHeaders == IF action # NoMethod
                            THEN SetHeaders(res, action.headers)
                            ELSE res
             envelope == processJsonError(error, driver.developmentMode,
                                          driver.errorOverridingMap)
         IN  IF envelope = Thrown
             THEN Effect(withHeaders, 0, NoError, TypeErrorValue, NoError, FALSE)
             ELSE Effect(WriteBody(withHeaders, "body", Undefined, envelope),
                         0, NoError, NoError, NoError, FALSE)
    ELSE Effect(res, 0, NoError, error, NoError, FALSE)

\* ------------------------------------------------------------------------
\* The driver contract
\* ------------------------------------------------------------------------

\* driver.handleSuccess(result, method, options)
handleSuccess(result, method, res) ==
    IF driver.kind = "express"
    THEN ExpressHandleSuccess(result, method, res)
    ELSE KoaHandleSuccess(result, method, res)

\* driver.handleError(error, method, options)
handleError(error, method, res) ==
    IF driver.kind = "express"
    THEN ExpressHandleError(error, method, res)
    ELSE KoaHandleError(error, method, res)

\* ------------------------------------------------------------------------
\* Route registration and the host framework
\* ------------------------------------------------------------------------

\* ExpressDriver.registerMethod: the route handed to express is
\* routePrefix + "*" and no verb is given; the handler is bound to method m.
ExpressRegisterMethod(methodMetadata, m) ==
    [verb |-> "", route |-> StringRoute(driver.routePrefix \o <<"*">>), method |-> m]

\* KoaDriver.registerMethod: router[type.toLowerCase()](route, routeHandler)
\* (method types are lower-case already).
KoaRegisterMethod(actionMetadata, m) ==
    [verb |-> actionMetadata.type,
     route |-> appendBaseRoute(driver.routePrefix, actionMetadata.fullRoute),
     method |-> m]

\* driver.registerMethod(method, executeCallback): the route bound on the host.
registerMethod(method, m) ==
    IF driver.kind = "express"
    THEN ExpressRegisterMethod(method, m)
    ELSE KoaRegisterMethod(method, m)

\* request.method.toLowerCase() on the verbs the host delivers.
LowerVerb(verb) ==
    CASE verb = "GET" -> "get"
      [] verb = "HEAD" -> "head"
      [] verb = "POST" -> "post"
      [] OTHER -> verb

\* The host's route matching: a route bound without a verb takes every verb,
\* a route bound with "get" also takes HEAD requests (the promotion the
\* comment in ExpressDriver.registerMethod describes, which koa-router does
\* as well); a route ending in "*" takes every path that starts with what
\* precedes the "*", any other string route takes exactly its own path.
HostMatches(entry, req) ==
    LET source == entry.route.source
        n == Len(source)
        verbOk == \/ entry.verb = ""
                  \/ entry.verb = LowerVerb(req.verb)
                  \/ (entry.verb = "get" /\ req.verb = "HEAD")
        pathOk == IF n > 0 /\ source[n] = "*"
                  THEN /\ Len(req.path) >= n - 1
                       /\ SubSeq(req.path, 1, n - 1) = SubSeq(source, 1, n - 1)
                  ELSE source = req.path
    IN  verbOk /\ pathOk

\* The first layer of the route table at or after position from that matches
\* the request; 0 when there is none.
NextLayer(table, from, req) ==
    IF \E i \in from..Len(table) : HostMatches(table[i], req)
    THEN CHOOSE i \in from..Len(table) :
            /\ HostMatches(table[i], req)
            /\ \A j \in from..Len(table) : HostMatches(table[j], req) => i <= j
    ELSE 0

\* The routeHandler closure of ExpressDriver.registerMethod: TRUE when it
\* calls executeCallback, FALSE when it returns next().
ExpressRouteHandler(methodMetadata, req) ==
    ~(LowerVerb(req.verb) # methodMetadata.type)

\* The routeHandler closure of KoaDriver.registerMethod calls executeCallback
\* for every request it is given.
KoaRouteHandler(actionMetadata, req) == TRUE

\* Whether the installed route handler calls executeCallback for the request.
routeHandler(method, req) ==
    IF driver.kind = "express"
    THEN ExpressRouteHandler(method, req)
    ELSE KoaRouteHandler(method, req)

\* ------------------------------------------------------------------------
\* getParamFromRequest
\* ------------------------------------------------------------------------

\* The outcome of an extraction: the value returned, or the message of the
\* error thrown ("" when nothing was thrown).
Returned(value) == [threw |-> "", value |-> value]

Threw(message) == [threw |-> message, value |-> JUndefined]

\* container[name]: a TypeError when the container is undefined, undefined
\* when it holds no such key.
ReadProperty(container, name) ==
    IF container = JUndefined
    THEN Threw("TypeError")
    ELSE IF name \in DOMAIN container[2]
    THEN Returned(container[2][name])
    ELSE Returned(JUndefined)

\* The header read by the name as declared, not lower-cased.
ExpressHeaderName_AsDeclared(param) == param.name

\* `param.name.toLowerCase()`: the key the express driver reads a header by.
ExpressHeaderName(param) == toLowerCase(param.name)

\* `param.name.toLowerCase()`: the key the koa driver reads a header by.
KoaHeaderName(param) == toLowerCase(param.name)

\* ExpressDriver.getParamFromRequest(action, param) on the request handle h.
ExpressGetParamFromRequest(h, param) ==
    CASE param.type = "body" -> Returned(h.body)
      [] param.type = "body-param" -> ReadProperty(h.body, param.name)
      [] param.type = "param" -> ReadProperty(h.params, param.name)
      [] param.type = "params" -> Returned(h.params)
      [] param.type = "session" ->
            IF param.name # <<>>
            THEN ReadProperty(h.session, param.name)
            ELSE Returned(h.session)
      [] param.type = "state" ->
            Threw("@State decorators are not supported by express driver.")
      [] param.type = "query" -> ReadProperty(h.query, param.name)
      [] param.type = "queries" -> Returned(h.query)
      [] param.type = "header" -> ReadProperty(h.headers, ExpressHeaderName(param))
      [] param.type = "headers" -> Returned(h.headers)
      [] param.type = "file" -> Returned(h.file)
      [] param.type = "files" -> Returned(h.files)
      [] OTHER -> Returned(JUndefined)

\* KoaDriver.getParamFromRequest(actionOptions, param). h.cookie stands for
\* headers.cookie: undefined, or what cookie.parse makes of it.
KoaGetParamFromRequest(h, param) ==
    CASE param.type = "body" -> Returned(h.body)
      [] param.type = "body-param" -> ReadProperty(h.body, param.name)
      [] param.type = "param" -> ReadProperty(h.params, param.name)
      [] param.type = "params" -> Returned(h.params)
      [] param.type = "session" ->
            IF param.name # <<>>
            THEN ReadProperty(h.session, param.name)
            ELSE Returned(h.session)
      [] param.type = "state" ->
            IF param.name # <<>>
            THEN ReadProperty(h.state, param.name)
            ELSE Returned(h.state)
      [] param.type = "query" -> ReadProperty(h.query, param.name)
      [] param.type = "queries" -> Returned(h.query)
      [] param.type = "file" -> Returned(h.file)
      [] param.type = "files" -> Returned(h.files)
      [] param.type = "header" -> ReadProperty(h.headers, KoaHeaderName(param))
      [] param.type = "headers" -> Returned(h.headers)
      [] param.type = "cookie" ->
            IF h.cookie = JUndefined
            THEN Returned(JUndefined)
            ELSE ReadProperty(h.cookie, param.name)
      [] param.type = "cookies" ->
            IF h.cookie = JUndefined
            THEN Returned(JObj(EmptyMap))
            ELSE Returned(h.cookie)
      [] OTHER -> Returned(JUndefined)

\* driver.getParamFromRequest(action, param)
getParamFromRequest(h, param) ==
    IF driver.kind = "express"
    THEN ExpressGetParamFromRequest(h, param)
    ELSE KoaGetParamFromRequest(h, param)

\* ------------------------------------------------------------------------
\* Inputs
\* ------------------------------------------------------------------------

\* A ResponseHandlerMetadata.
Handler(type, value, secondaryValue) ==
    [type |-> type, value |-> value, secondaryValue |-> secondaryValue]

\* The response handlers a method is built with.
HandlerLists ==
    { <<>>,
      <<Handler("on-undefined", Num(404), Undefined),
        Handler("header", Str("X-A"), Str("1"))>>,
      <<Handler("on-undefined", Fn("NotFoundError"), Undefined),
        Handler("on-null", Fn("GoneError"), Undefined)>>,
      <<Handler("on-null", Num(410), Undefined),
        Handler("success-code", Num(201), Undefined),
        Handler("content-type", Str("text/plain"), Undefined)>> }

\* options.defaults of the application.
NoDefaults == [undefinedResultCode |-> Undefined, nullResultCode |-> Undefined]

\* The declared methods: controller "/m" with the methods "/a" and "/b",
\* both of type "get".
DeclaredMethods ==
    [m \in MethodIds |->
        NewMethodMetadata(<<"/", "m">>,
                          StringRoute(IF m = 1 THEN <<"/", "a">> ELSE <<"/", "b">>),
                          "get")]

\* What a controller method may return.
Results ==
    { Undefined, Null, Str("hi"), Obj("instance"), Obj("Buffer"),
      Obj("Uint8Array"), Obj("stream"), ResponseObject, ContextObject }

\* What a controller method, or the handling of its result, may throw.
Errors ==
    { ErrorValue("null", "", "", "", FALSE, "none", EmptyMap),
      ErrorValue("undefined", "", "", "", FALSE, "none", EmptyMap),
      ErrorValue("string", "boom", "", "String", FALSE, "none", EmptyMap),
      ErrorValue("Error", "boom", "Error", "Error", TRUE, "none", EmptyMap),
      ErrorValue("RpcError", "bad", "Error", "RpcError", TRUE, "none",
                 [k \in {"httpCode"} |-> JNum(400)]),
      ErrorValue("object", "", "", "Object", FALSE, "none",
                 [k \in {"code"} |-> JNum(7)]),
      ErrorValue("object", "custom", "", "Object", FALSE, "returns", EmptyMap),
      ErrorValue("object", "custom", "", "Object", FALSE, "throws", EmptyMap) }

\* errorOverridingMap of the driver: not set, or one override for RpcError.
OverridingMaps ==
    { EmptyMap,
      [k \in {"RpcError"} |-> JObj([j \in {"message"} |-> JStr("overridden")])] }

\* The status a response handle carries before the driver touches it: the
\* host's default (200 in express, 404 in koa) or what a middleware set.
InitialStatuses == {200, 404}

\* The driver object: its kind and the BaseDriver fields.
Driver(kind, enabled, devMode, useTransformer, overridingMap, prefix) ==
    [kind |-> kind,
     isDefaultErrorHandlingEnabled |-> enabled,
     developmentMode |-> devMode,
     useClassTransformer |-> useTransformer,
     classToPlainTransformOptions |-> Undefined,
     errorOverridingMap |-> overridingMap,
     routePrefix |-> prefix]

NoOutcome == [kind |-> "none", result |-> Undefined, error |-> NoError]

NoRequest == [verb |-> "", path |-> <<>>]

NoCall ==
    [op |-> "none", result |-> Undefined, error |-> NoError, method |-> 0,
     before |-> NewResponse(0),
     effect |-> Effect(NewResponse(0), 0, NoError, NoError, NoError, FALSE)]

\* A request handle as getParamFromRequest reads it; EmptyHandle before any.
Handle(body, session, headers, cookie) ==
    [body |-> body, session |-> session,
     params |-> JObj([k \in {<<"x">>} |-> JStr("p")]),
     query |-> JObj([k \in {<<"x">>} |-> JStr("q")]),
     state |-> JObj(EmptyMap),
     headers |-> headers, cookie |-> cookie,
     file |-> JUndefined, files |-> JUndefined]

EmptyHandle == Handle(JUndefined, JUndefined, JObj(EmptyMap), JUndefined)

NoExtraction == [param |-> [type |-> "", name |-> <<>>], outcome |-> Returned(JUndefined)]

\* ------------------------------------------------------------------------
\* Startup: build the metadata, register the methods, mount the routes
\* ------------------------------------------------------------------------

IdleRequests ==
    /\ pc = [r \in Requests |-> "idle"]
    /\ request = [r \in Requests |-> NoRequest]
    /\ response = [r \in Requests |-> NewResponse(0)]
    /\ pos = [r \in Requests |-> 0]
    /\ current = [r \in Requests |-> 0]
    /\ outcome = [r \in Requests |-> NoOutcome]
    /\ executed = [r \in Requests |-> <<>>]
    /\ lastCall = [r \in Requests |-> NoCall]

NoExtractions ==
    /\ handle = EmptyHandle
    /\ prev = NoExtraction
    /\ last = NoExtraction

\* One entry of buildLog: the handlers build was called with and the
\* metadata it left.
BuildEntry(responseHandlers, after) == [handlers |-> responseHandlers, after |-> after]

\* appendBaseRoute was not applied yet.
NoComposition ==
    [baseRoute |-> <<>>, name |-> StringRoute(<<>>), result |-> StringRoute(<<>>),
     applied |-> FALSE]

\* processJsonError was not applied yet.
NoProcessing ==
    [error |-> NoError, version |-> "", devMode |-> FALSE, overridingMap |-> EmptyMap,
     result |-> JUndefined, applied |-> FALSE]

\* transformResult was not applied yet.
NoTransformation ==
    [result |-> Undefined, version |-> "", value |-> Undefined, threw |-> NoError,
     before |-> NewResponse(0), response |-> NewResponse(0), applied |-> FALSE]

NoApplications ==
    /\ composed = NoComposition
    /\ processed = NoProcessing
    /\ lastTransform = NoTransformation

NoCalls == calls = [r \in Requests |-> <<>>]

\* The drivers and options the dispatch pipeline is explored with.
Init ==
    /\ driver \in { Driver(kind, enabled, FALSE, TRUE, EmptyMap, prefix) :
                        kind \in {"express", "koa"}, enabled \in BOOLEAN,
                        prefix \in {<<>>, <<"/", "v">>} }
    /\ methods = DeclaredMethods
    /\ routes = <<>>
    /\ phase = "startup"
    /\ IdleRequests
    /\ NoExtractions
    /\ NoCalls
    /\ options = NoDefaults
    /\ buildLog = [m \in MethodIds |-> <<>>]
    /\ NoApplications

\* method.build(responseHandlers), once per method, before registration.
Build(m, responseHandlers) ==
    /\ phase = "startup"
    /\ routes = <<>>
    /\ ~methods[m].built
    /\ methods' = [methods EXCEPT ![m] = build(@, responseHandlers, options)]
    /\ buildLog' = [buildLog EXCEPT ![m] =
          Append(@, BuildEntry(responseHandlers, methods'[m]))]
    /\ UNCHANGED <<calls, options, applyVars, driver, routes, phase, pc, request, response, pos, current,
                   outcome, executed, lastCall, handle, prev, last>>

\* driver.registerMethod(method, executeCallback), in declaration order.
RegisterMethod(m) ==
    /\ phase = "startup"
    /\ \A k \in MethodIds : methods[k].built
    /\ m = Len(routes) + 1
    /\ routes' = Append(routes, registerMethod(methods[m], m))
    /\ UNCHANGED <<calls, buildVars, applyVars, driver, methods, phase, pc, request, response, pos, current,
                   outcome, executed, lastCall, handle, prev, last>>

\* driver.registerRoutes(), after every method is registered.
RegisterRoutes ==
    /\ phase = "startup"
    /\ Len(routes) = Cardinality(MethodIds)
    /\ phase' = "serving"
    /\ UNCHANGED <<calls, buildVars, applyVars, driver, methods, routes, pc, request, response, pos, current,
                   outcome, executed, lastCall, handle, prev, last>>

\* ------------------------------------------------------------------------
\* Serving a request
\* ------------------------------------------------------------------------

\* The verbs and paths of incoming requests.
Verbs == {"GET", "HEAD"}

Paths == { <<"/", "m", "/", "a">>, <<"/", "v", "/", "m", "/", "a">> }

\* The response status the host starts a request with.
DefaultStatus == IF driver.kind = "express" THEN 200 ELSE 404

\* The host framework receives a request.
Receive(r, verb, path) ==
    /\ phase = "serving"
    /\ pc[r] = "idle"
    /\ request' = [request EXCEPT ![r] = [verb |-> verb, path |-> path]]
    /\ response' = [response EXCEPT ![r] = NewResponse(DefaultStatus)]
    /\ pos' = [pos EXCEPT ![r] = 1]
    /\ pc' = [pc EXCEPT ![r] = "routing"]
    /\ UNCHANGED <<calls, buildVars, applyVars, driver, methods, routes, phase, current, outcome, executed,
                   lastCall, handle, prev, last>>

\* The host runs the next matching layer, whose routeHandler returns next()
\* without calling executeCallback.
RouteHandlerSkip(r) ==
    LET i == NextLayer(routes, pos[r], request[r])
    IN  /\ pc[r] = "routing"
        /\ i # 0
        /\ ~routeHandler(methods[routes[i].method], request[r])
        /\ pos' = [pos EXCEPT ![r] = i + 1]
        /\ lastCall' = [lastCall EXCEPT ![r] =
              [op |-> "routeHandler", result |-> Undefined, error |-> NoError,
               method |-> routes[i].method, before |-> response[r],
               effect |-> Effect(response[r], 1, NoError, NoError, NoError, FALSE)]]
        /\ UNCHANGED <<calls, buildVars, applyVars, driver, methods, routes, phase, pc, request, response,
                       current, outcome, executed, handle, prev, last>>

\* The host runs the next matching layer, whose routeHandler calls
\* executeCallback({request, response, next}).
RouteHandlerExecute(r) ==
    LET i == NextLayer(routes, pos[r], request[r])
    IN  /\ pc[r] = "routing"
        /\ i # 0
        /\ routeHandler(methods[routes[i].method], request[r])
        /\ pos' = [pos EXCEPT ![r] = i + 1]
        /\ current' = [current EXCEPT ![r] = routes[i].method]
        /\ executed' = [executed EXCEPT ![r] =
              Append(@, [method |-> routes[i].method, verb |-> request[r].verb])]
        /\ pc' = [pc EXCEPT ![r] = "executing"]
        /\ UNCHANGED <<calls, buildVars, applyVars, driver, methods, routes, phase, request, response,
                       outcome, lastCall, handle, prev, last>>

\* No layer is left that matches: the request leaves the route table.
NoRoute(r) ==
    /\ pc[r] = "routing"
    /\ NextLayer(routes, pos[r], request[r]) = 0
    /\ pc' = [pc EXCEPT ![r] = "unhandled"]
    /\ UNCHANGED <<calls, buildVars, applyVars, driver, methods, routes, phase, request, response, pos,
                   current, outcome, executed, lastCall, handle, prev, last>>

\* The controller method returns a result.
CallMethod(r, result) ==
    /\ pc[r] = "executing"
    /\ outcome' = [outcome EXCEPT ![r] =
          [kind |-> "result", result |-> result, error |-> NoError]]
    /\ pc' = [pc EXCEPT ![r] = "returned"]
    /\ UNCHANGED <<calls, buildVars, applyVars, driver, methods, routes, phase, request, response, pos,
                   current, executed, lastCall, handle, prev, last>>

\* The controller method, or the extraction of its parameters, throws.
MethodThrows(r, error) ==
    /\ pc[r] = "executing"
    /\ outcome' = [outcome EXCEPT ![r] =
          [kind |-> "error", result |-> Undefined, error |-> error]]
    /\ pc' = [pc EXCEPT ![r] = "failed"]
    /\ UNCHANGED <<calls, buildVars, applyVars, driver, methods, routes, phase, request, response, pos,
                   current, executed, lastCall, handle, prev, last>>

\* The method metadata the driver is handed for request r.
MethodOf(r) == IF current[r] = 0 THEN NoMethod ELSE methods[current[r]]

\* handleSuccess of a driver that keeps the response handle in a field of
\* its own: what it writes lands on the response of every request.
HandleSuccess_SharedResponse(r) ==
    LET eff == handleSuccess(outcome[r].result, MethodOf(r), response[r])
    IN  /\ pc[r] = "returned"
        /\ response' = [q \in Requests |-> eff.response]
        /\ lastCall' = [lastCall EXCEPT ![r] =
              [op |-> "handleSuccess", result |-> outcome[r].result,
               error |-> NoError, method |-> current[r],
               before |-> response[r], effect |-> eff]]
        /\ calls' = [calls EXCEPT ![r] = Append(@, lastCall'[r])]
        /\ outcome' = [outcome EXCEPT ![r] =
              IF eff.threw # NoError
              THEN [kind |-> "error", result |-> Undefined, error |-> eff.threw]
              ELSE @]
        /\ pc' = [pc EXCEPT ![r] =
              IF eff.threw # NoError THEN "failed"
              ELSE IF eff.nexts > 0 THEN "routing"
              ELSE "ended"]
        /\ UNCHANGED <<buildVars, applyVars, driver, methods, routes, phase, request,
                       pos, current, executed, handle, prev, last>>

\* driver.handleSuccess(result, method, options). What it throws is caught
\* and routed to handleError; after a call of next the host goes on with the
\* layers that follow.
HandleSuccess(r) ==
    LET eff == handleSuccess(outcome[r].result, MethodOf(r), response[r])
    IN  /\ pc[r] = "returned"
        /\ response' = [response EXCEPT ![r] = eff.response]
        /\ lastCall' = [lastCall EXCEPT ![r] =
              [op |-> "handleSuccess", result |-> outcome[r].result,
               error |-> NoError, method |-> current[r],
               before |-> response[r], effect |-> eff]]
        /\ calls' = [calls EXCEPT ![r] = Append(@, lastCall'[r])]
        /\ outcome' = [outcome EXCEPT ![r] =
              IF eff.threw # NoError
              THEN [kind |-> "error", result |-> Undefined, error |-> eff.threw]
              ELSE @]
        /\ pc' = [pc EXCEPT ![r] =
              IF eff.threw # NoError THEN "failed"
              ELSE IF eff.nexts > 0 THEN "routing"
              ELSE "ended"]
        /\ UNCHANGED <<buildVars, applyVars, driver, methods, routes, phase, request, pos, current,
                       executed, handle, prev, last>>

\* driver.handleError(error, method, options). An error given to next or a
\* rejected promise reaches the host's error chain; a thrown error escapes.
HandleError(r) ==
    LET eff == handleError(outcome[r].error, MethodOf(r), response[r])
    IN  /\ pc[r] = "failed"
        /\ response' = [response EXCEPT ![r] = eff.response]
        /\ lastCall' = [lastCall EXCEPT ![r] =
              [op |-> "handleError", result |-> Undefined,
               error |-> outcome[r].error, method |-> current[r],
               before |-> response[r], effect |-> eff]]
        /\ calls' = [calls EXCEPT ![r] = Append(@, lastCall'[r])]
        /\ pc' = [pc EXCEPT ![r] =
              IF eff.threw # NoError THEN "crashed"
              ELSE IF eff.nexts > 0 \/ eff.rejected # NoError THEN "hostError"
              ELSE "ended"]
        /\ UNCHANGED <<buildVars, applyVars, driver, methods, routes, phase, request, pos, current,
                       outcome, executed, handle, prev, last>>

\* What the controller methods of the pipeline return and throw.
PipelineResults == {Undefined, Str("hi"), Obj("Buffer")}

PipelineErrors == {ErrorValue("Error", "boom", "Error", "Error", TRUE, "none", EmptyMap)}

\* The startup pipeline is followed up to the first request served.
PipelineRequests == {1}

Next ==
    \/ \E m \in MethodIds, responseHandlers \in HandlerLists : Build(m, responseHandlers)
    \/ \E m \in MethodIds : RegisterMethod(m)
    \/ RegisterRoutes
    \/ \E r \in PipelineRequests, verb \in Verbs, path \in Paths : Receive(r, verb, path)
    \/ \E r \in PipelineRequests : RouteHandlerSkip(r)
    \/ \E r \in PipelineRequests : RouteHandlerExecute(r)
    \/ \E r \in PipelineRequests : NoRoute(r)
    \/ \E r \in PipelineRequests, result \in PipelineResults : CallMethod(r, result)
    \/ \E r \in PipelineRequests, error \in PipelineErrors : MethodThrows(r, error)
    \/ \E r \in PipelineRequests : HandleSuccess(r)
    \/ \E r \in PipelineRequests : HandleError(r)

Spec == Init /\ [][Next]_vars

\* ------------------------------------------------------------------------
\* One driver call on every result, error, method and driver configuration
\* ------------------------------------------------------------------------

\* The route table after registerMethod of every method, in order.
RegisteredRoutes(table) ==
    [m \in 1..Cardinality(MethodIds) |-> registerMethod(table[m], m)]

\* Request 1 is inside executeCallback of method 1 (or, for an error, has no
\* method resolved), the controller method has returned or thrown, and the
\* driver is about to be handed the outcome.
InitHandle ==
    /\ driver \in { Driver(kind, enabled, devMode, useTransformer, overridingMap, <<>>) :
                        kind \in {"express", "koa"}, enabled \in BOOLEAN,
                        devMode \in BOOLEAN, useTransformer \in BOOLEAN,
                        overridingMap \in OverridingMaps }
    /\ options = NoDefaults
    /\ \E responseHandlers \in HandlerLists :
          /\ methods = [m \in MethodIds |->
                          build(DeclaredMethods[m],
                                IF m = 1 THEN responseHandlers ELSE <<>>, NoDefaults)]
          /\ buildLog = [m \in MethodIds |->
                          <<BuildEntry(IF m = 1 THEN responseHandlers ELSE <<>>,
                                       methods[m])>>]
    /\ routes = RegisteredRoutes(methods)
    /\ phase = "serving"
    /\ \E status \in InitialStatuses :
          response = [r \in Requests |-> NewResponse(IF r = 1 THEN status ELSE 0)]
    /\ \E o \in { [kind |-> "result", result |-> result, error |-> NoError] :
                      result \in Results }
             \cup { [kind |-> "error", result |-> Undefined, error |-> error] :
                      error \in Errors },
          method \in {0, 1} :
          /\ o.kind = "result" => method = 1
          /\ outcome = [r \in Requests |-> IF r = 1 THEN o ELSE NoOutcome]
          /\ current = [r \in Requests |-> IF r = 1 THEN method ELSE 0]
          /\ pc = [r \in Requests |->
                      IF r # 1 THEN "idle"
                      ELSE IF o.kind = "result" THEN "returned" ELSE "failed"]
          /\ executed = [r \in Requests |->
                      IF r = 1 /\ method = 1
                      THEN <<[method |-> 1, verb |-> "GET"]>> ELSE <<>>]
    /\ request = [r \in Requests |->
                      IF r = 1 THEN [verb |-> "GET", path |-> <<"/", "m", "/", "a">>]
                      ELSE NoRequest]
    /\ pos = [r \in Requests |-> IF r = 1 THEN 2 ELSE 0]
    /\ lastCall = [r \in Requests |-> NoCall]
    /\ NoExtractions
    /\ NoCalls
    /\ NoApplications

NextHandle ==
    \/ \E r \in Requests : HandleSuccess(r)
    \/ \E r \in Requests : HandleError(r)

SpecHandle == InitHandle /\ [][NextHandle]_vars

\* ------------------------------------------------------------------------
\* Parameter extraction on every kind of parameter and request handle
\* ------------------------------------------------------------------------

\* Declared parameter names: the strings over the alphabet of at most
\* MaxNameLen characters, the empty one for a parameter without a name.
Alphabet == {"X", "x"}

Names == UNION { [1..n -> Alphabet] : n \in 0..MaxNameLen }

\* ParamMetadata: the types that read one named entry take a name, session
\* and state may go without one, the others have none.
Params ==
    { [type |-> type, name |-> name] :
        type \in {"body-param", "param", "query", "header", "cookie"},
        name \in Names \ {<<>>} }
    \cup { [type |-> type, name |-> name] :
        type \in {"session", "state"}, name \in Names }
    \cup { [type |-> type, name |-> <<>>] :
        type \in {"body", "params", "queries", "headers", "file", "files", "cookies"} }

\* The request handles: the body, the session and the cookie header are each
\* there or not; header names are stored in lower case.
Handles ==
    { Handle(body, session, headers, cookie) :
        body \in {JUndefined, JObj([k \in {<<"x">>} |-> JStr("b")])},
        session \in {JUndefined, JObj([k \in {<<"x">>} |-> JStr("s")])},
        headers \in {JObj(EmptyMap),
                     JObj([k \in {<<"x">>, <<"x", "x">>} |->
                             IF k = <<"x">> THEN JStr("h1") ELSE JStr("h2")])},
        cookie \in {JUndefined, JObj([k \in {<<"x">>} |-> JStr("c")])} }

InitParam ==
    /\ driver \in { Driver(kind, TRUE, FALSE, TRUE, EmptyMap, <<>>) :
                        kind \in {"express", "koa"} }
    /\ options = NoDefaults
    /\ methods = [m \in MethodIds |-> build(DeclaredMethods[m], <<>>, NoDefaults)]
    /\ buildLog = [m \in MethodIds |-> <<BuildEntry(<<>>, methods[m])>>]
    /\ routes = RegisteredRoutes(methods)
    /\ phase = "serving"
    /\ IdleRequests
    /\ NoCalls
    /\ NoApplications
    /\ handle \in Handles
    /\ prev = NoExtraction
    /\ last = NoExtraction

\* driver.getParamFromRequest(action, param) on the request handle, for the
\* two parameters of the method being called.
GetParamFromRequest(param) ==
    /\ prev = NoExtraction
    /\ prev' = last
    /\ last' = [param |-> param, outcome |-> getParamFromRequest(handle, param)]
    /\ UNCHANGED <<calls, buildVars, applyVars, driver, methods, routes, phase, pc, request, response, pos,
                   current, outcome, executed, lastCall, handle>>

NextParam == \E param \in Params : GetParamFromRequest(param)

SpecParam == InitParam /\ [][NextParam]_vars

\* ------------------------------------------------------------------------
\* Building the metadata of one method, on every declaration
\* ------------------------------------------------------------------------

\* The characters base routes are made of.
RouteAlphabet == {"/", "a"}

\* The base routes given to appendBaseRoute.
BaseRoutes == UNION { [1..n -> RouteAlphabet] : n \in 0..MaxRouteLen }

\* The names of controllers: none, one with a leading "/", and the "math" of
\* the sample.
ControllerNames == { <<>>, <<"/", "a">>, <<"m", "a", "t", "h">> }

\* The route fragments of methods: strings, the "add" of the sample with and
\* without a leading "/", and patterns with and without "^" and a flag.
RouteNames ==
    { StringRoute(source) :
        source \in { <<>>, <<"/", "a">>, <<"a", "d", "d">>, <<"/", "a", "d", "d">> } }
    \cup { RegExpRoute(source, flags) :
             source \in { <<"a">>, <<"^", "a">> }, flags \in { <<>>, <<"i">> } }

\* options.defaults: not given, or given with undefinedResultCode only.
DefaultsSet ==
    { NoDefaults,
      [undefinedResultCode |-> Num(204), nullResultCode |-> Undefined] }

\* The response handlers a declaration may carry.
HandlerKinds ==
    { Handler("on-undefined", Num(404), Undefined),
      Handler("on-null", Num(410), Undefined),
      Handler("success-code", Num(201), Undefined),
      Handler("content-type", Str("text/plain"), Undefined),
      Handler("header", Str("Content-type"), Str("text/html")),
      Handler("header", Str("X-A"), Str("1")),
      Handler("header", Str("X-A"), Str("2")),
      Handler("response-class-transform-options", [t |-> "object", n |-> 1, s |-> "options"],
              Undefined) }

\* The lists of response handlers of at most MaxHandlers entries.
BuildHandlerLists == UNION { [1..n -> HandlerKinds] : n \in 0..MaxHandlers }

\* Method 1 is declared with any controller name, route fragment and
\* defaults; nothing is built or registered yet.
InitBuild ==
    /\ driver = Driver("koa", TRUE, FALSE, TRUE, EmptyMap, <<>>)
    /\ \E controllerName \in ControllerNames, name \in RouteNames :
          methods = [m \in MethodIds |->
                        IF m = 1 THEN NewMethodMetadata(controllerName, name, "get")
                        ELSE DeclaredMethods[m]]
    /\ options \in DefaultsSet
    /\ routes = <<>>
    /\ phase = "startup"
    /\ IdleRequests
    /\ NoExtractions
    /\ NoCalls
    /\ buildLog = [m \in MethodIds |-> <<>>]
    /\ NoApplications

\* method.build(responseHandlers) once more, with the handlers of the first
\* call.
Rebuild(m) ==
    /\ phase = "startup"
    /\ routes = <<>>
    /\ Len(buildLog[m]) = 1
    /\ methods' = [methods EXCEPT ![m] = build(@, buildLog[m][1].handlers, options)]
    /\ buildLog' = [buildLog EXCEPT ![m] =
          Append(@, BuildEntry(buildLog[m][1].handlers, methods'[m]))]
    /\ UNCHANGED <<calls, options, applyVars, driver, routes, phase, pc, request,
                   response, pos, current, outcome, executed, lastCall, handle,
                   prev, last>>

\* MethodMetadata.appendBaseRoute(baseRoute, name), once and before anything
\* is built.
AppendBaseRoute(baseRoute, name) ==
    /\ phase = "startup"
    /\ ~composed.applied
    /\ \A m \in MethodIds : buildLog[m] = <<>>
    /\ composed' = [baseRoute |-> baseRoute, name |-> name,
                    result |-> appendBaseRoute(baseRoute, name), applied |-> TRUE]
    /\ UNCHANGED <<calls, buildVars, processed, lastTransform, driver, methods, routes, phase, pc,
                   request, response, pos, current, outcome, executed, lastCall,
                   handle, prev, last>>

\* The helper was not applied, or it was applied to the controller name and
\* the route fragment of method m.
ComposedFor(m) ==
    composed.applied =>
        /\ composed.baseRoute = methods[m].controllerName
        /\ composed.name = methods[m].name

\* method.build(responseHandlers) of the declared method m.
BuildDeclared(m, responseHandlers) ==
    /\ ComposedFor(m)
    /\ Build(m, responseHandlers)

NextBuild ==
    \/ \E baseRoute \in BaseRoutes, name \in RouteNames : AppendBaseRoute(baseRoute, name)
    \/ \E responseHandlers \in BuildHandlerLists : BuildDeclared(1, responseHandlers)
    \/ Rebuild(1)

SpecBuild == InitBuild /\ [][NextBuild]_vars

\* ------------------------------------------------------------------------
\* Error envelopes, on every error value and override map
\* ------------------------------------------------------------------------

\* The two processJsonError of the repository: the one the drivers inherit
\* ("http") and the JSON-RPC one ("rpc").
Versions == {"http", "rpc"}

\* The error values processJsonError is given: those of Errors, an error
\* with a toJSON, a plain object that carries a stack, and a
\* ValidationError with an object-valued and a scalar property.
ErrorInputs ==
    Errors \cup
    { ErrorValue("Error", "boom", "Error", "Error", TRUE, "returns", EmptyMap),
      ErrorValue("object", "", "", "Object", TRUE, "none",
                 [k \in {"stack", "message"} |->
                     IF k = "stack" THEN JStr("stack trace") ELSE JStr("boom")]),
      ErrorValue("Error", "invalid", "ValidationError", "ValidationError", TRUE, "none",
                 [k \in {"details", "field"} |->
                     IF k = "details" THEN JObj([j \in {"min"} |-> JNum(1)])
                     ELSE JStr("age")]) }

\* errorOverridingMap: those of OverridingMaps, and for ValidationError an
\* override of the message, of the object-valued details by an object, and
\* of details by a string.
ErrorOverridingMaps ==
    OverridingMaps \cup
    { [k \in {"ValidationError"} |-> JObj([j \in {"message"} |-> JStr("overridden")])],
      [k \in {"ValidationError"} |->
          JObj([j \in {"details"} |-> JObj([i \in {"max"} |-> JNum(9)])])],
      [k \in {"ValidationError"} |-> JObj([j \in {"details"} |-> JStr("hidden")])] }

InitError ==
    /\ driver \in { Driver(kind, TRUE, devMode, TRUE, overridingMap, <<>>) :
                        kind \in {"express", "koa"}, devMode \in BOOLEAN,
                        overridingMap \in ErrorOverridingMaps }
    /\ options = NoDefaults
    /\ methods = [m \in MethodIds |-> build(DeclaredMethods[m], <<>>, NoDefaults)]
    /\ buildLog = [m \in MethodIds |-> <<BuildEntry(<<>>, methods[m])>>]
    /\ routes = RegisteredRoutes(methods)
    /\ phase = "serving"
    /\ IdleRequests
    /\ NoExtractions
    /\ NoCalls
    /\ NoApplications

\* this.processJsonError(error), in handleError of a driver.
ProcessJsonError(error, version) ==
    /\ phase = "serving"
    /\ processed' =
          [error |-> error, version |-> version,
           devMode |-> driver.developmentMode,
           overridingMap |-> driver.errorOverridingMap,
           result |-> IF version = "http"
                      THEN processJsonError(error, driver.developmentMode,
                                            driver.errorOverridingMap)
                      ELSE processJsonErrorRpc(error, driver.developmentMode),
           applied |-> TRUE]
    /\ UNCHANGED <<calls, buildVars, composed, lastTransform, driver, methods, routes, phase, pc,
                   request, response, pos, current, outcome, executed, lastCall,
                   handle, prev, last>>

NextError ==
    \E error \in ErrorInputs, version \in Versions : ProcessJsonError(error, version)

SpecError == InitError /\ [][NextError]_vars

\* ------------------------------------------------------------------------
\* Concurrent requests to the same route
\* ------------------------------------------------------------------------

\* The handlers method 1 is built with when requests are served concurrently.
ConcurrentHandlers ==
    <<Handler("on-undefined", Num(404), Undefined),
      Handler("header", Str("X-A"), Str("1"))>>

\* Startup is over: the methods are built and registered, and no request
\* has arrived.
InitConcurrent ==
    /\ driver \in { Driver(kind, TRUE, FALSE, TRUE, EmptyMap, <<>>) :
                        kind \in {"express", "koa"} }
    /\ options = NoDefaults
    /\ methods = [m \in MethodIds |->
                    build(DeclaredMethods[m],
                          IF m = 1 THEN ConcurrentHandlers ELSE <<>>, NoDefaults)]
    /\ buildLog = [m \in MethodIds |->
                    <<BuildEntry(IF m = 1 THEN ConcurrentHandlers ELSE <<>>, methods[m])>>]
    /\ routes = RegisteredRoutes(methods)
    /\ phase = "serving"
    /\ IdleRequests
    /\ NoExtractions
    /\ NoCalls
    /\ NoApplications

\* The route every concurrent request asks for.
ConcurrentPath == <<"/", "m", "/", "a">>

\* The correlation value of request r, which the method echoes as result.
Correlation(r) == Num(r)

\* What the method returns to request r: nothing, or the correlation value.
ConcurrentResults(r) == {Undefined, Correlation(r)}

\* The steps of the requests, interleaved in any order.
NextConcurrent ==
    \/ \E r \in Requests : Receive(r, "GET", ConcurrentPath)
    \/ \E r \in Requests : RouteHandlerExecute(r)
    \/ \E r \in Requests : NoRoute(r)
    \/ \E r \in Requests :
          \E result \in ConcurrentResults(r) : CallMethod(r, result)
    \/ \E r \in Requests, error \in PipelineErrors : MethodThrows(r, error)
    \/ \E r \in Requests : HandleSuccess(r)
    \/ \E r \in Requests : HandleError(r)

SpecConcurrent == InitConcurrent /\ [][NextConcurrent]_vars

\* ------------------------------------------------------------------------
\* Result transformation, on every result and configuration
\* ------------------------------------------------------------------------

\* The options a response-class-transform-options handler and the driver
\* carry.
MethodTransformOptions == [t |-> "object", n |-> 1, s |-> "options"]

DriverTransformOptions == [t |-> "object", n |-> 2, s |-> "options"]

\* The results transformResult is given: those of Results, a number and a
\* callable.
TransformInputs == Results \cup { Num(7), Fn("handler") }

\* The handlers method 1 is built with: none, or transform options.
TransformHandlerLists ==
    { <<>>,
      <<Handler("response-class-transform-options", MethodTransformOptions, Undefined)>> }

\* The transformer is enabled or not, the driver has options of its own or
\* not, and so has method 1; request 1 is inside handleSuccess.
InitTransform ==
    /\ driver \in { [Driver(kind, TRUE, FALSE, useTransformer, EmptyMap, <<>>)
                        EXCEPT !.classToPlainTransformOptions = classToPlainOptions] :
                        kind \in {"express", "koa"}, useTransformer \in BOOLEAN,
                        classToPlainOptions \in {Undefined, DriverTransformOptions} }
    /\ options = NoDefaults
    /\ \E responseHandlers \in TransformHandlerLists :
          /\ methods = [m \in MethodIds |->
                          build(DeclaredMethods[m],
                                IF m = 1 THEN responseHandlers ELSE <<>>, NoDefaults)]
          /\ buildLog = [m \in MethodIds |->
                          <<BuildEntry(IF m = 1 THEN responseHandlers ELSE <<>>,
                                       methods[m])>>]
    /\ routes = RegisteredRoutes(methods)
    /\ phase = "serving"
    /\ IdleRequests
    /\ NoExtractions
    /\ NoCalls
    /\ NoApplications

\* this.transformResult(result, method, options), in handleSuccess of a
\* driver, on a response handle nothing was written to.
TransformResult(result, version) ==
    LET res == NewResponse(DefaultStatus)
        did == IF version = "http"
               THEN Transformed(transformResult(result, methods[1],
                                                driver.useClassTransformer,
                                                driver.classToPlainTransformOptions),
                                NoError, res)
               ELSE transformResultRpc(result, methods[1], driver.useClassTransformer,
                                       driver.classToPlainTransformOptions, res)
    IN  /\ phase = "serving"
        /\ lastTransform' =
              [result |-> result, version |-> version, value |-> did.value,
               threw |-> did.threw, before |-> res, response |-> did.response,
               applied |-> TRUE]
        /\ UNCHANGED <<calls, buildVars, composed, processed, driver, methods, routes,
                       phase, pc, request, response, pos, current, outcome, executed,
                       lastCall, handle, prev, last>>

NextTransform ==
    \E result \in TransformInputs, version \in Versions : TransformResult(result, version)

SpecTransform == InitTransform /\ [][NextTransform]_vars

\* ------------------------------------------------------------------------
\* Properties
\* ------------------------------------------------------------------------

\* The calls of handleSuccess and of handleError made so far.
SuccessCalls == {r \in Requests : lastCall[r].op = "handleSuccess"}

ErrorCalls == {r \in Requests : lastCall[r].op = "handleError"}

\* The method metadata a recorded call was given.
CallMethodOf(r) == IF lastCall[r].method = 0 THEN NoMethod ELSE methods[lastCall[r].method]

\* C1: one call of handleSuccess ends with options.next called exactly once,
\* whatever the driver, the result and the method.
C1_HandleSuccessAdvancesOnce ==
    \A r \in SuccessCalls : lastCall[r].effect.nexts = 1

\* C2: handleError never propagates an exception to its caller: it throws
\* nothing, and the promise it returns is rejected only to forward the error
\* it was given when default error handling is disabled.
C2_HandleErrorNeverThrows ==
    \A r \in ErrorCalls :
        /\ lastCall[r].effect.threw = NoError
        /\ lastCall[r].effect.rejected # NoError =>
              /\ ~driver.isDefaultErrorHandlingEnabled
              /\ lastCall[r].effect.rejected = lastCall[r].error

\* C3: with default error handling enabled handleError sets an error status,
\* applies the method's headers, writes the processed envelope as the body
\* and does not forward the error; with it disabled it writes nothing and
\* forwards the error to the host chain. (Stated for the errors whose
\* envelope can be built, so that a failure of C2 is not counted here.)
C3_HandleErrorWritesOrForwards ==
    \A r \in ErrorCalls :
        LET c == lastCall[r]
            after == c.effect.response
            envelope == processJsonError(c.error, driver.developmentMode,
                                         driver.errorOverridingMap)
        IN  envelope # Thrown =>
              IF driver.isDefaultErrorHandlingEnabled
              THEN /\ after.statusCalls = c.before.statusCalls + 1
                   /\ after.status >= 400
                   /\ \A k \in DOMAIN CallMethodOf(r).headers :
                         /\ k \in DOMAIN after.headers
                         /\ after.headers[k] = CallMethodOf(r).headers[k]
                   /\ after.writes = c.before.writes + 1
                   /\ after.body.envelope = envelope
                   /\ c.effect.forwarded = NoError
                   /\ c.effect.rejected = NoError
              ELSE /\ after = c.before
                   /\ \/ c.effect.forwarded = c.error
                      \/ c.effect.rejected = c.error

\* The result of a recorded handleSuccess call is the response handle of the
\* request (or, in koa, its context object).
ReturnedTheHandle(r) ==
    \/ lastCall[r].result = ResponseObject
    \/ (driver.kind = "koa" /\ lastCall[r].result = ContextObject)

\* C4: handleSuccess given the response handle itself (in koa also the
\* context) leaves status, headers and body as they were, does not run
\* transformResult, and advances control exactly once.
C4_ReturnedHandleShortCircuits ==
    \A r \in SuccessCalls :
        ReturnedTheHandle(r) =>
            /\ lastCall[r].effect.response = lastCall[r].before
            /\ ~lastCall[r].effect.transformed
            /\ lastCall[r].effect.nexts = 1
            /\ lastCall[r].effect.threw = NoError

\* C4 witness: handleSuccess was called with the response handle on a method
\* that declares headers, under a driver that transforms results.
C4_Witness ==
    \E r \in SuccessCalls :
        /\ lastCall[r].result = ResponseObject
        /\ DOMAIN CallMethodOf(r).headers # {}
        /\ driver.useClassTransformer

\* C5: handleSuccess with result undefined on a method whose
\* undefinedResultCode is 404 leaves the response with status 404 and has
\* advanced control exactly once.
C5_UndefinedResultSets404 ==
    \A r \in SuccessCalls :
        (lastCall[r].result = Undefined /\ CallMethodOf(r).undefinedResultCode = Num(404)) =>
            /\ lastCall[r].effect.response.status = 404
            /\ lastCall[r].effect.nexts = 1

\* C6: executeCallback is invoked only for a request whose verb equals the
\* method's declared type, and a route handler that skips a request advances
\* control once without an error.
C6_CallbackOnlyForDeclaredVerb ==
    \A r \in Requests :
        /\ \A i \in DOMAIN executed[r] :
              LowerVerb(executed[r][i].verb) = methods[executed[r][i].method].type
        /\ lastCall[r].op = "routeHandler" =>
              /\ lastCall[r].effect.nexts = 1
              /\ lastCall[r].effect.forwarded = NoError

\* C7: every registered route is keyed by the method's declared verb and by
\* the path made of routePrefix and the method's fullRoute, so a callback is
\* invoked only for requests to its own method's path.
C7_RouteKeyedByVerbAndFullRoute ==
    /\ \A i \in DOMAIN routes :
          /\ routes[i].verb = methods[routes[i].method].type
          /\ routes[i].route =
                appendBaseRoute(driver.routePrefix, methods[routes[i].method].fullRoute)
    /\ \A r \in Requests : \A i \in DOMAIN executed[r] :
          request[r].path =
              appendBaseRoute(driver.routePrefix,
                              methods[executed[r][i].method].fullRoute).source

\* The extractions made on the request handle.
Extractions == {e \in {prev, last} : e # NoExtraction}

\* The parameter types a driver does not support.
Unsupported(kind) == IF kind = "express" THEN {"state", "cookie", "cookies"} ELSE {}

\* C8: getParamFromRequest of a parameter type the driver does not support
\* fails with an error of its own that names the feature and the driver; it
\* never returns undefined silently.
C8_UnsupportedParamThrows ==
    \A e \in Extractions :
        e.param.type \in Unsupported(driver.kind) =>
            e.outcome.threw \notin {"", "TypeError"}

\* The container of the request handle a parameter type reads from.
ContainerOf(h, type) ==
    CASE type \in {"body", "body-param"} -> h.body
      [] type = "session" -> h.session
      [] type \in {"param", "params"} -> h.params
      [] type \in {"query", "queries"} -> h.query
      [] type \in {"cookie", "cookies"} -> h.cookie
      [] OTHER -> JObj(EmptyMap)

\* C9: when the container a supported parameter type reads from is missing
\* from the request, getParamFromRequest returns undefined and does not
\* throw.
C9_MissingContainerGivesUndefined ==
    \A e \in Extractions :
        (/\ e.param.type \notin Unsupported(driver.kind)
         /\ ContainerOf(handle, e.param.type) = JUndefined) =>
            e.outcome = Returned(JUndefined)

\* The request header stored under a (lower-case) name, undefined when the
\* request has none.
StoredHeader(h, name) ==
    IF name \in DOMAIN h.headers[2] THEN h.headers[2][name] ELSE JUndefined

\* C10: a header parameter is looked up without regard to the letter case of
\* its declared name: the value is the request header stored under the
\* lower-cased name, so two names that differ only in case give the same
\* value.
C10_HeaderLookupIgnoresCase ==
    /\ \A e \in Extractions :
          e.param.type = "header" =>
              e.outcome = Returned(StoredHeader(handle, toLowerCase(e.param.name)))
    /\ (/\ prev.param.type = "header"
        /\ last.param.type = "header"
        /\ toLowerCase(prev.param.name) = toLowerCase(last.param.name)) =>
            prev.outcome = last.outcome

\* C10 witness: the header "X" and then the header "x" were extracted from a
\* request that carries the header x, and both gave its value.
C10_Witness ==
    /\ prev.param = [type |-> "header", name |-> <<"X">>]
    /\ last.param = [type |-> "header", name |-> <<"x">>]
    /\ last.outcome = Returned(JStr("h1"))

\* The fields build derives, as a record.
DerivedFields(method) ==
    [headers |-> method.headers,
     fullRoute |-> method.fullRoute,
     undefinedResultCode |-> method.undefinedResultCode,
     nullResultCode |-> method.nullResultCode,
     successHttpCode |-> method.successHttpCode,
     responseClassTransformOptions |-> method.responseClassTransformOptions]

\* The methods build was called on twice.
BuiltTwice == {m \in MethodIds : Len(buildLog[m]) = 2}

\* The build calls made so far: the method and the log entry of each.
BuildCalls ==
    { <<m, i>> : m \in MethodIds, i \in 1..2 } \cap
    UNION { {<<m, i>> : i \in DOMAIN buildLog[m]} : m \in MethodIds }

\* C11: build is idempotent. After a second build with the handlers of the
\* first, headers, fullRoute, the three result codes and the transform
\* options equal what the first build left.
C11_BuildIsIdempotent ==
    \A m \in BuiltTwice :
        buildLog[m][1].handlers = buildLog[m][2].handlers
            => DerivedFields(buildLog[m][2].after) = DerivedFields(buildLog[m][1].after)

\* A method with a controller name was built twice with a header handler.
C11_Witness ==
    \E m \in BuiltTwice :
        /\ buildLog[m][1].handlers = buildLog[m][2].handlers
        /\ HasHandler(buildLog[m][1].handlers, "header")
        /\ Len(methods[m].controllerName) > 0
        /\ methods[m] = buildLog[m][2].after

\* The value of the first handler of a type in H, or otherwise.
HandlerValueOr(H, type, otherwise) ==
    IF \E i \in DOMAIN H : H[i].type = type
    THEN H[CHOOSE i \in DOMAIN H :
              H[i].type = type /\ \A j \in 1..(i - 1) : H[j].type # type].value
    ELSE otherwise

C13_FullRouteConcatenates ==
    \A c \in BuildCalls :
        LET after == buildLog[c[1]][c[2]].after
        IN  after.name.kind = "string"
                => after.fullRoute = StringRoute(after.controllerName \o after.name.source)

\* "math" and "add" were built into "mathadd".
C13_Witness ==
    \E c \in BuildCalls :
        LET after == buildLog[c[1]][c[2]].after
        IN  /\ after.controllerName = <<"m", "a", "t", "h">>
            /\ after.name = StringRoute(<<"a", "d", "d">>)
            /\ after.fullRoute.source = <<"m", "a", "t", "h", "a", "d", "d">>

\* C14: a pattern composed with the empty base is the pattern itself, from
\* appendBaseRoute and from build of a method whose controller has no name.
C14_PatternWithEmptyBaseUnchanged ==
    /\ (composed.applied /\ composed.name.kind = "regexp" /\ composed.baseRoute = <<>>)
            => composed.result = composed.name
    /\ \A c \in BuildCalls :
            LET after == buildLog[c[1]][c[2]].after
            IN  (after.name.kind = "regexp" /\ after.controllerName = <<>>)
                    => after.fullRoute = after.name

\* A flagged pattern went through appendBaseRoute with the empty base and
\* through build under a controller without a name.
C14_Witness ==
    /\ composed.applied
    /\ composed.baseRoute = <<>>
    /\ composed.name = RegExpRoute(<<"^", "a">>, <<"i">>)
    /\ \E c \in BuildCalls :
            LET after == buildLog[c[1]][c[2]].after
            IN  after.name = composed.name /\ after.controllerName = <<>>

\* The header name a handler sets: "Content-type" for a content-type
\* directive, its value for a header handler, none for the others.
HeaderNameOf(handler) ==
    IF handler.type = "content-type" THEN "Content-type"
    ELSE IF handler.type = "header" THEN handler.value.s
    ELSE ""

\* The header value a handler sets.
HeaderValueOf(handler) ==
    IF handler.type = "content-type" THEN handler.value ELSE handler.secondaryValue

\* C19: after build(H), headers holds one entry per header name set in H,
\* "Content-type" for a content-type directive, and the value of each is
\* that of the handler declared last in H for the name.
C19_LaterHandlerWinsHeader ==
    \A c \in BuildCalls :
        LET entry == buildLog[c[1]][c[2]]
            H == entry.handlers
            setters(k) == {i \in DOMAIN H : HeaderNameOf(H[i]) = k}
            lastOf(k) == CHOOSE i \in setters(k) : \A j \in setters(k) : j <= i
        IN  /\ DOMAIN entry.after.headers =
                  {HeaderNameOf(H[i]) : i \in DOMAIN H} \ {""}
            /\ \A k \in DOMAIN entry.after.headers :
                  setters(k) # {} => entry.after.headers[k] = HeaderValueOf(H[lastOf(k)])

\* The prefix appendBaseRoute is described with: empty for the empty base,
\* otherwise the base made to start with "/".
NormalizedPrefix(baseRoute) ==
    IF Len(baseRoute) = 0 THEN <<>>
    ELSE IF baseRoute[1] = "/" THEN baseRoute
    ELSE <<"/">> \o baseRoute

\* C20: appendBaseRoute with a string fragment returns the base, made to
\* start with "/" unless empty, followed by the fragment as it is.
C20_StringRouteGetsNormalizedPrefix ==
    (composed.applied /\ composed.name.kind = "string")
        => composed.result = StringRoute(NormalizedPrefix(composed.baseRoute)
                                         \o composed.name.source)

\* A JSON value holds a stack: it is an object with a "stack" key, or one of
\* its values holds one.
RECURSIVE HoldsStack(_)
HoldsStack(j) ==
    /\ IsJObject(j)
    /\ \/ "stack" \in DOMAIN j[2]
       \/ \E k \in DOMAIN j[2] : HoldsStack(j[2][k])

\* C15: with development mode off the envelope of processJsonError holds no
\* stack, whatever the error; with development mode on, the envelope of an
\* Error that carries a stack holds it.
C15_StackOnlyInDevelopmentMode ==
    (processed.applied /\ processed.result # Thrown) =>
        /\ ~processed.devMode => ~HoldsStack(processed.result)
        /\ (processed.devMode /\ processed.error.t \in {"Error", "RpcError"}
                /\ processed.error.stack)
              => HoldsStack(processed.result)

\* The deep merge of two property maps: keys of one side keep their value,
\* object values on both sides are merged, otherwise the right side wins.
RECURSIVE DeepMerge(_, _)
DeepMerge(obj1, obj2) ==
    [k \in DOMAIN obj1 \cup DOMAIN obj2 |->
        IF k \notin DOMAIN obj2 THEN obj1[k]
        ELSE IF k \notin DOMAIN obj1 THEN obj2[k]
        ELSE IF IsJObject(obj1[k]) /\ IsJObject(obj2[k])
        THEN JObj(DeepMerge(obj1[k][2], obj2[k][2]))
        ELSE obj2[k]]

\* The name processJsonError classifies an Error by.
ClassifiedName(error) ==
    IF error.name # "" /\ error.name # "Error" THEN error.name ELSE error.ctor

\* The applications of the inherited processJsonError to an Error without
\* toJSON whose classified name has an entry in errorOverridingMap.
Overridden ==
    /\ processed.applied
    /\ processed.version = "http"
    /\ processed.error.t \in {"Error", "RpcError"}
    /\ processed.error.toJSON = "none"
    /\ ClassifiedName(processed.error) \in DOMAIN processed.overridingMap

\* C16: the envelope of an error whose classified name has an override is
\* the deep merge of the envelope without overrides and the override.
C16_OverrideIsDeepMerged ==
    Overridden =>
        processed.result =
            JObj(DeepMerge(processJsonError(processed.error, processed.devMode, EmptyMap)[2],
                           processed.overridingMap[ClassifiedName(processed.error)][2]))

\* The metadata as build left it.
BuiltMetadata == [m \in MethodIds |-> buildLog[m][Len(buildLog[m])].after]

\* The response handle of a request served alone: the driver calls of its
\* log applied in order, with the metadata as build left it.
RECURSIVE Replay(_, _)
Replay(log, res) ==
    IF log = <<>>
    THEN res
    ELSE LET call == Head(log)
             method == IF call.method = 0 THEN NoMethod ELSE BuiltMetadata[call.method]
             eff == IF call.op = "handleSuccess"
                    THEN handleSuccess(call.result, method, res)
                    ELSE handleError(call.error, method, res)
         IN  Replay(Tail(log), eff.response)

\* Every request received holds the response it gets when served alone.
ServedAlone ==
    \A r \in Requests :
        pc[r] # "idle" => response[r] = Replay(calls[r], NewResponse(DefaultStatus))

\* A step of request handling leaves the metadata, the options, the driver
\* configuration and the route table as they are.
SharedStateUnchanged ==
    phase = "serving" => UNCHANGED <<methods, options, driver, routes, buildLog>>

C18_ExpressStatusFromResultIdentity ==
    \A r \in SuccessCalls :
        LET call == lastCall[r]
            method == CallMethodOf(r)
            res == call.effect.response
            statusSet == res.statusCalls > call.before.statusCalls
            nullish == call.result.t \in {"undefined", "null"}
        IN  (/\ driver.kind = "express"
             /\ ~ExpressReturnedResponse(call.result)
             /\ call.effect.threw = NoError) =>
                /\ (call.result = Null /\ method.nullResultCode.t = "number")
                      => (statusSet /\ res.status = method.nullResultCode.n)
                /\ (call.result = Null /\ method.nullResultCode = Undefined)
                      => (statusSet /\ res.status = 204)
                /\ (~nullish /\ Truthy(method.successHttpCode))
                      => (statusSet /\ res.status = method.successHttpCode.n)
                /\ (nullish /\ Truthy(method.successHttpCode))
                      => ~(statusSet /\ res.status = method.successHttpCode.n)

\* The source of a pattern without its own leading "^".
StripCaret(source) ==
    IF Len(source) > 0 /\ source[1] = "^" THEN Tail(source) ELSE source

\* C21: appendBaseRoute with a pattern and a base that is not empty returns
\* a pattern whose source is "^", the base made to start with "/", the source
\* of the fragment without its own leading "^", and "?$", with the flags of
\* the fragment; nothing else of the fragment's textual form is in it.
C21_PatternComposedFromSource ==
    (composed.applied /\ composed.name.kind = "regexp" /\ Len(composed.baseRoute) > 0)
        => composed.result =
              RegExpRoute(<<"^">> \o NormalizedPrefix(composed.baseRoute)
                               \o StripCaret(composed.name.source) \o <<"?", "$">>,
                          composed.name.flags)

\* The results transformResult is to pass through: every result when the
\* transformer is disabled, and else null, undefined, primitives, binary
\* data and streams.
PassedThrough(result) ==
    \/ ~driver.useClassTransformer
    \/ result.t \in {"undefined", "null", "string", "number", "boolean"}
    \/ result \in {Obj("Buffer"), Obj("Uint8Array"), Obj("stream")}

\* C22: transformResult returns a passed-through result as it is, throws
\* nothing and writes nothing to the response; every other result is given
\* to classToPlain with the transform options of the method when it has
\* some, else with those of the driver.
C22_TransformResultPassesThrough ==
    lastTransform.applied =>
        /\ lastTransform.threw = NoError
        /\ lastTransform.response = lastTransform.before
        /\ IF PassedThrough(lastTransform.result)
           THEN lastTransform.value = lastTransform.result
           ELSE lastTransform.value =
                   classToPlain(lastTransform.result,
                                IF methods[1].responseClassTransformOptions # Undefined
                                THEN methods[1].responseClassTransformOptions
                                ELSE driver.classToPlainTransformOptions)

====
